---- MODULE Spec2Model ----
(***************************************************************************)
(* A model of pg-models' PgormModel (src/unnamed/part_001, the class that  *)
(* starts at line 652): the CRUD engine, define's schema reconciliation    *)
(* and addForeignKey, run against a small relational store that stands for *)
(* the query-execution contract (PgormModel.#CLIENT.query).                *)
(*                                                                         *)
(* JavaScript values are encoded as strings: "undefined" is a key that is  *)
(* absent from the input object, "null" is SQL NULL / JS null, "0",        *)
(* "false" and "" are the falsy values 0, false and '', "x" is any truthy  *)
(* value.                                                                  *)
(***************************************************************************)
EXTENDS Integers, Sequences, FiniteSets, TLC

\* ------------------------------------------------------------------ bounds

\* How many rows the SERIAL primary key hands out (ids 1..MaxId).
MaxId == 1

\* ------------------------------------------------------------ value domain

UNDEF == "undefined"
NULL == "null"

\* The values `x || null` replaces by null.
Falsy == {"0", "false", "", NULL, UNDEF}

\* The values a caller passes for a column: column a is given 0, '' or a
\* truthy value, column b 0, false or a truthy value.
InputVals(col) == IF col = "a" THEN {"0", "", "x"} ELSE {"0", "false", "x"}

\* What getTimestamp() can return.
Times == {"t1"}

\* An id argument that is not a number (typeof id !== 'number').
NotANumber == -1

\* ------------------------------------------------------ the declared model

\* The columns object handed to define, in Object.keys order.
Columns == <<"a", "b">>

ColSet == {Columns[i] : i \in 1..Len(Columns)}

\* columns[col].validations, in registration order.  The validators are
\* user functions; these three reject one value each.
Validations(col) == IF col = "a" THEN <<"notEmpty", "notZero">> ELSE <<"notFalse">>

\* Whether validator fn throws for value val.
Rejects(fn, val) ==
    \/ fn = "notEmpty" /\ val = ""
    \/ fn = "notZero" /\ val = "0"
    \/ fn = "notFalse" /\ val = "false"

timestampsObj == [createdAt |-> "created_at", updatedAt |-> "updated_at", deletedAt |-> "deleted_at"]

\* The static #timestamps a model with timestamps can be constructed with:
\* the default names, all three renamed, the deleted-at column renamed.
TimestampNames ==
    { timestampsObj,
      [createdAt |-> "made_at", updatedAt |-> "changed_at", deletedAt |-> "removed_at"],
      [timestampsObj EXCEPT !.deletedAt = "removed_at"] }

\* The input objects: one value, or no key, per declared column.
Inputs == {f \in [ColSet -> Falsy \cup {"x"}] : \A c \in ColSet : f[c] \in InputVals(c) \cup {UNDEF}}

NoValues == [c \in ColSet |-> UNDEF]

VARIABLES
    \* ---- the model object and the class's statics
    paranoidTable,   \* #paranoidTable
    useTimestamps,   \* #useTimestamps
    timestamps,      \* static #timestamps
    hooks,           \* #validateBeforeCreate / Update / Destroy: registered or not
    selectQuery,     \* #selectQuery: the columns define compiled into the SELECT, the primary key aside
    \* ---- the database
    liveCols,        \* the column names of the live table, the primary key aside
    table,           \* the rows: [id, vals]
    nextId,          \* the SERIAL sequence
    \* ---- the last completed call: operation, arguments, result, what it did
    last,
    \* ---- define and its detached reconciliation
    alter,           \* #configOptions.alter
    columns,         \* this.columns: the declared column names, in Object.keys order
    isTableCreated,  \* this.isTableCreated
    tableExists,     \* whether the database has the model's table
    nDefines,        \* how many times define has been called
    chains,          \* one record per define call: where its promise chain stands
    \* ---- addForeignKey and its detached operation
    pkNames,         \* #pkName of this model, and the primary key column of the parent table
    constraints,     \* the foreign key constraints of the live table
    nFk,             \* how many times addForeignKey has been called
    fkCalls,         \* one record per addForeignKey call: where its async function stands
    \* ---- the class's options and the models constructed
    globalConfigOptions,  \* static #globalConfigOptions
    setOptionsCalls,      \* the arguments setOptions was called with, in order
    models,               \* the models constructed, in order: their private fields
    \* ---- deleteById calls in flight
    deleteCalls           \* one record per overlapping deleteById call: where its async function stands

crudVars == <<paranoidTable, useTimestamps, timestamps, hooks, selectQuery, liveCols, table, nextId, last>>

defVars == <<alter, columns, isTableCreated, tableExists, nDefines, chains>>

fkVars == <<pkNames, constraints, nFk, fkCalls>>

cfgVars == <<globalConfigOptions, setOptionsCalls, models>>

delVars == <<deleteCalls>>

vars == <<crudVars, defVars, fkVars, cfgVars, delVars>>

\* ----------------------------------------------------------------- results

Res(kind, rows, err) == [kind |-> kind, rows |-> rows, err |-> err]

RowRes(rows) == IF rows = {} THEN Res("null", {}, "") ELSE Res("row", {CHOOSE r \in rows : TRUE}, "")

ErrRes(err) == Res("error", {}, err)

Ev(ev, col, fn, val, whole) == [ev |-> ev, col |-> col, fn |-> fn, val |-> val, whole |-> whole]

\* What a before-hook did when it was awaited.
HookOutcome(hookRaises) == IF hookRaises THEN "throws" ELSE "returns"

Stmt(kind) == Ev(kind, "", "", "", NoValues)

Out(result, tbl, nid, trace) == [result |-> result, table |-> tbl, nextId |-> nid, trace |-> trace]

\* ------------------------------------------------------------------- util

\* verifyParamType(id, 'number', ...): TRUE when it throws.
verifyParamType(id) == id = NotANumber

\* Object.values(PgormModel.#timestamps): insertion order of timestampsObj.
ObjectValues(ts) == <<ts.createdAt, ts.updatedAt, ts.deletedAt>>

\* The place of a timestamp column name in Array.prototype.sort's order
\* (by UTF-16 code units) among the names the model uses.
AlphaRank(name) ==
    CASE name = "changed_at" -> 1
      [] name = "created_at" -> 2
      [] name = "deleted_at" -> 3
      [] name = "made_at" -> 4
      [] name = "removed_at" -> 5
      [] name = "updated_at" -> 6
      [] OTHER -> 7

\* timestampsCols.sort()
SortNames(names) == SortSeq(names, LAMBDA x, y : AlphaRank(x) < AlphaRank(y))

\* ------------------------------------------- the query-execution contract

\* node-pg sends undefined as NULL.
ToSql(v) == IF v = UNDEF THEN NULL ELSE v

RowsById(tbl, id) == {r \in tbl : r.id = id}

\* SELECT <pk, cols> FROM t where pk=$1 [and <nullCol> is null].  A column
\* the live table lacks makes the statement fail.
ExecSelectById(tbl, cols, id, nullCol) ==
    IF ~(cols \subseteq liveCols) \/ (nullCol # "" /\ nullCol \notin liveCols)
    THEN [ok |-> FALSE, rows |-> {}]
    ELSE [ok |-> TRUE,
          rows |-> {[id |-> r.id, vals |-> [c \in cols |-> r.vals[c]]] :
                      r \in {x \in RowsById(tbl, id) : nullCol = "" \/ x.vals[nullCol] = NULL}}]

\* INSERT INTO t (<cols>) VALUES ($1,...,$n) RETURNING *, with params.
ExecInsert(tbl, nid, cols, nPlaceholders, params) ==
    IF \/ \E i \in 1..Len(cols) : cols[i] \notin liveCols
       \/ \E i, j \in 1..Len(cols) : i # j /\ cols[i] = cols[j]
       \/ Len(cols) # nPlaceholders
       \/ Len(params) # nPlaceholders
    THEN [ok |-> FALSE, rows |-> {}, table |-> tbl, nextId |-> nid]
    ELSE LET row == [id |-> nid,
                     vals |-> [c \in liveCols |->
                                 IF \E i \in 1..Len(cols) : cols[i] = c
                                 THEN ToSql(params[CHOOSE i \in 1..Len(cols) : cols[i] = c])
                                 ELSE NULL]]
         IN [ok |-> TRUE, rows |-> {row}, table |-> tbl \cup {row}, nextId |-> nid + 1]

\* UPDATE t set <col=$ph,...> where pk=$wherePh [RETURNING *], with params.
\* The statement fails unless its placeholders are exactly $1..$n for the n
\* parameters sent.
ExecUpdate(tbl, sets, wherePh, params) ==
    LET used == {sets[i].ph : i \in 1..Len(sets)} \cup {wherePh}
    IN IF \/ \E i \in 1..Len(sets) : sets[i].col \notin liveCols
          \/ used # 1..Len(params)
       THEN [ok |-> FALSE, rows |-> {}, table |-> tbl]
       ELSE LET hit == RowsById(tbl, params[wherePh])
                upd(r) == [id |-> r.id,
                           vals |-> [c \in liveCols |->
                                       IF \E i \in 1..Len(sets) : sets[i].col = c
                                       THEN ToSql(params[(CHOOSE s \in {sets[i] : i \in 1..Len(sets)} : s.col = c).ph])
                                       ELSE r.vals[c]]]
            IN [ok |-> TRUE, rows |-> {upd(r) : r \in hit},
                table |-> (tbl \ hit) \cup {upd(r) : r \in hit}]

\* A condition of a WHERE clause: <col> = <val>, or <col> is null.
Eq(col, val) == [col |-> col, val |-> val, isNull |-> FALSE]
IsNull(col) == [col |-> col, val |-> "", isNull |-> TRUE]

\* The text "<whereClause> and <col> is null" as SQL reads it: AND binds
\* tighter than OR, so the condition joins the last disjunct of the clause.  A
\* clause is the sequence of its disjuncts, each the sequence of its
\* conditions; the empty text followed by "and ..." does not parse.
AppendAnd(where, col) ==
    IF col = "" THEN [ok |-> TRUE, where |-> where]
    ELSE IF where = <<>> THEN [ok |-> FALSE, where |-> where]
    ELSE [ok |-> TRUE,
          where |-> [i \in 1..Len(where) |-> IF i = Len(where) THEN Append(where[i], IsNull(col)) ELSE where[i]]]

\* Whether row r satisfies a parsed clause; a comparison with NULL is not true.
Satisfies(r, where) ==
    \/ where = <<>>
    \/ \E i \in 1..Len(where) : \A j \in 1..Len(where[i]) :
          LET c == where[i][j]
          IN IF c.isNull THEN r.vals[c.col] = NULL
             ELSE r.vals[c.col] # NULL /\ ToSql(c.val) # NULL /\ r.vals[c.col] = c.val

\* SELECT <pk, cols> FROM t <where>, the clause already parsed.
ExecSelect(tbl, cols, where) ==
    IF \/ ~(cols \subseteq liveCols)
       \/ \E i \in 1..Len(where) : \E j \in 1..Len(where[i]) : where[i][j].col \notin liveCols
    THEN [ok |-> FALSE, rows |-> {}]
    ELSE [ok |-> TRUE,
          rows |-> {[id |-> r.id, vals |-> [c \in cols |-> r.vals[c]]] : r \in {x \in tbl : Satisfies(x, where)}}]

\* DELETE FROM t WHERE pk=$1
ExecDelete(tbl, id) == [ok |-> TRUE, rows |-> {}, table |-> tbl \ RowsById(tbl, id)]

\* --------------------------------------------------------- private methods

\* #arrangeByColumns: one entry per declared column, valuesObj[key] || null.
arrangeByColumns(valuesObj) ==
    [i \in 1..Len(Columns) |-> IF valuesObj[Columns[i]] \in Falsy THEN NULL ELSE valuesObj[Columns[i]]]

\* Mutant of checkForDeletion: the soft-delete filter is never appended.
checkForDeletion_never == ""

\* #checkForDeletion: the column the appended "<startWith> <deletedAt> is null"
\* tests, "" when the clause is empty.
checkForDeletion == IF paranoidTable THEN timestamps.deletedAt ELSE ""

\* The calls #validate makes when no validator throws: the columns from the
\* i-th on in for..in order, each one's validations in forEach order.
RECURSIVE ValidatorCalls(_)
ValidatorCalls(i) ==
    IF i > Len(Columns) THEN <<>>
    ELSE [k \in 1..Len(Validations(Columns[i])) |->
            [col |-> Columns[i], fn |-> Validations(Columns[i])[k]]]
         \o ValidatorCalls(i + 1)

\* Mutant of validate: a throwing validator does not stop the later ones.
validate_all(values) ==
    LET calls == ValidatorCalls(1)
        failing == {k \in 1..Len(calls) : Rejects(calls[k].fn, values[calls[k].col])}
        n == IF failing = {} THEN Len(calls)
             ELSE CHOOSE k \in failing : \A j \in failing : k <= j
    IN [trace |-> [k \in 1..Len(calls) |-> Ev("validator", calls[k].col, calls[k].fn, values[calls[k].col], values)],
        threw |-> failing # {},
        err |-> IF failing = {} THEN "" ELSE calls[n].fn]

\* #validate(values): the validator calls made, up to and with the first that
\* throws, and whether one threw.
validate(values) ==
    LET calls == ValidatorCalls(1)
        failing == {k \in 1..Len(calls) : Rejects(calls[k].fn, values[calls[k].col])}
        n == IF failing = {} THEN Len(calls)
             ELSE CHOOSE k \in failing : \A j \in failing : k <= j
    IN [trace |-> [k \in 1..n |-> Ev("validator", calls[k].col, calls[k].fn, values[calls[k].col], values)],
        threw |-> failing # {},
        err |-> IF failing = {} THEN "" ELSE calls[n].fn]

\* ------------------------------------------------------------ CRUD engine

\* findById(id) on the rows tbl.
findById(tbl, id) ==
    IF verifyParamType(id) THEN Out(ErrRes("findById"), tbl, nextId, <<>>)
    ELSE LET sel == ExecSelectById(tbl, selectQuery, id, checkForDeletion)
         IN IF ~sel.ok THEN Out(ErrRes("db"), tbl, nextId, <<Stmt("SELECT")>>)
            ELSE Out(RowRes(sel.rows), tbl, nextId, <<Stmt("SELECT")>>)

\* The result of a method that returns the rows.
ListRes(rows) == Res("rows", rows, "")

\* findAll(): `${selectQuery} ${checkForDeletion('WHERE')}`
findAll ==
    LET sel == ExecSelect(table, selectQuery,
                          IF checkForDeletion = "" THEN <<>> ELSE <<<<IsNull(checkForDeletion)>>>>)
    IN IF ~sel.ok THEN Out(ErrRes("db"), table, nextId, <<Stmt("SELECT")>>)
       ELSE Out(ListRes(sel.rows), table, nextId, <<Stmt("SELECT")>>)

\* findAllWhere(whereClause, paramsArray), the parameters already put in the
\* clause: `${selectQuery} ${whereClause} ${checkForDeletion()}`
findAllWhere(whereClause) ==
    LET parsed == AppendAnd(whereClause, checkForDeletion)
        sel == ExecSelect(table, selectQuery, parsed.where)
    IN IF ~parsed.ok \/ ~sel.ok THEN Out(ErrRes("db"), table, nextId, <<Stmt("SELECT")>>)
       ELSE Out(ListRes(sel.rows), table, nextId, <<Stmt("SELECT")>>)

\* The property names every object inherits, of which one stands for all.
ObjectPrototype == {"constructor"}

\* this.columns[column] is truthy: the column is declared, or the name is one
\* that the columns object inherits from Object.prototype.
HasProperty(column) == column \in ColSet \cup ObjectPrototype

\* findOne(column, value): `${selectQuery} where ${column}=$1 ${checkForDeletion()}`
findOne(column, value) ==
    LET parsed == AppendAnd(<<<<Eq(column, value)>>>>, checkForDeletion)
        sel == ExecSelect(table, selectQuery, parsed.where)
    IN IF ~HasProperty(column) THEN Out(ErrRes("findOne"), table, nextId, <<>>)
       ELSE IF ~sel.ok THEN Out(ErrRes("db"), table, nextId, <<Stmt("SELECT")>>)
       ELSE Out(RowRes(sel.rows), table, nextId, <<Stmt("SELECT")>>)

\* The INSERT create sends: its columns, how many placeholders $1..$n its
\* VALUES list has, and its parameters.
insertQuery(values, now) ==
    LET len == Len(Columns)
        arrangedValues == arrangeByColumns(values)
        timestampsCols == ObjectValues(timestamps)
    IN [insertColumns |-> IF useTimestamps THEN Columns \o SortNames(timestampsCols) ELSE Columns,
        nPlaceholders |-> IF useTimestamps THEN len + Len(timestampsCols) ELSE len,
        insertValues |-> IF useTimestamps THEN arrangedValues \o <<now, NULL, now>> ELSE arrangedValues]

\* create(values); hookRaises: the before-create hook throws or rejects.
create(values, hookRaises, now) ==
    LET v == validate(values)
        hookTrace == IF hooks.create THEN <<Ev("hook", "", "beforeCreate", HookOutcome(hookRaises), values)>> ELSE <<>>
        q == insertQuery(values, now)
        ins == ExecInsert(table, nextId, q.insertColumns, q.nPlaceholders, q.insertValues)
        trace == v.trace \o hookTrace \o <<Stmt("INSERT")>>
    IN IF v.threw THEN Out(ErrRes(v.err), table, nextId, v.trace)
       ELSE IF hooks.create /\ hookRaises THEN Out(ErrRes("hook"), table, nextId, v.trace \o hookTrace)
       ELSE IF ~ins.ok THEN Out(ErrRes("db"), table, nextId, trace)
       ELSE Out(RowRes(ins.rows), ins.table, ins.nextId, trace)

\* The UPDATE updateById sends: its SET columns with their placeholders, the
\* placeholder of its WHERE condition, and its parameters.
updateQuery(id, values, now) ==
    LET len == Len(Columns)
        arrangedValues == arrangeByColumns(values)
        updateCols == [i \in 1..len |-> [col |-> Columns[i], ph |-> i]]
        updateValues == IF useTimestamps THEN arrangedValues \o <<now>> ELSE arrangedValues
    IN [setColumns |-> IF useTimestamps
                       THEN updateCols \o <<[col |-> timestamps.updatedAt, ph |-> len + 1]>>
                       ELSE updateCols,
        wherePh |-> len + 2,
        params |-> updateValues \o <<id>>]

\* updateById(id, values); hookRaises: the before-update hook throws or rejects.
updateById(id, values, hookRaises, now) ==
    LET v == validate(values)
        hookTrace == IF hooks.update THEN <<Ev("hook", "", "beforeUpdate", HookOutcome(hookRaises), values)>> ELSE <<>>
        q == updateQuery(id, values, now)
        upd == ExecUpdate(table, q.setColumns, q.wherePh, q.params)
        trace == v.trace \o hookTrace \o <<Stmt("UPDATE")>>
    IN IF verifyParamType(id) THEN Out(ErrRes("updateById"), table, nextId, <<>>)
       ELSE IF v.threw THEN Out(ErrRes(v.err), table, nextId, v.trace)
       ELSE IF hooks.update /\ hookRaises THEN Out(ErrRes("hook"), table, nextId, v.trace \o hookTrace)
       ELSE IF ~upd.ok THEN Out(ErrRes("db"), table, nextId, trace)
       ELSE Out(RowRes(upd.rows), upd.table, nextId, trace)

\* Mutant of deleteById: a paranoid model deletes the row for good.
deleteById_hard(id, hookRaises, now) ==
    LET hookTrace == IF hooks.destroy THEN <<Ev("hook", "", "beforeDestroy", HookOutcome(hookRaises), NoValues)>> ELSE <<>>
        record == findById(table, id)
        lookup == hookTrace \o record.trace
        hard == ExecDelete(table, id)
    IN IF verifyParamType(id) THEN Out(ErrRes("deleteById"), table, nextId, <<>>)
       ELSE IF hooks.destroy /\ hookRaises THEN Out(ErrRes("hook"), table, nextId, hookTrace)
       ELSE IF record.result.kind = "error" THEN Out(record.result, table, nextId, lookup)
       ELSE IF record.result.kind = "null" THEN Out(Res("false", {}, ""), table, nextId, lookup)
       ELSE Out(Res("true", {}, ""), hard.table, nextId, lookup \o <<Stmt("DELETE")>>)

\* Mutant of deleteById: the existence lookup is skipped.
deleteById_noLookup(id, hookRaises, now) ==
    LET hookTrace == IF hooks.destroy THEN <<Ev("hook", "", "beforeDestroy", HookOutcome(hookRaises), NoValues)>> ELSE <<>>
        hard == ExecDelete(table, id)
    IN IF verifyParamType(id) THEN Out(ErrRes("deleteById"), table, nextId, <<>>)
       ELSE IF hooks.destroy /\ hookRaises THEN Out(ErrRes("hook"), table, nextId, hookTrace)
       ELSE Out(Res("true", {}, ""), hard.table, nextId, hookTrace \o <<Stmt("DELETE")>>)

\* Mutant of deleteById: the before-destroy hook is awaited after the lookup.
deleteById_hookLate(id, hookRaises, now) ==
    LET hookTrace == IF hooks.destroy THEN <<Ev("hook", "", "beforeDestroy", HookOutcome(hookRaises), NoValues)>> ELSE <<>>
        record == findById(table, id)
        lookup == record.trace \o hookTrace
        soft == ExecUpdate(table, <<[col |-> timestamps.deletedAt, ph |-> 1]>>, 2, <<now, id>>)
        hard == ExecDelete(table, id)
    IN IF verifyParamType(id) THEN Out(ErrRes("deleteById"), table, nextId, <<>>)
       ELSE IF record.result.kind = "error" THEN Out(record.result, table, nextId, record.trace)
       ELSE IF hooks.destroy /\ hookRaises THEN Out(ErrRes("hook"), table, nextId, lookup)
       ELSE IF record.result.kind = "null" THEN Out(Res("false", {}, ""), table, nextId, lookup)
       ELSE IF paranoidTable
            THEN IF ~useTimestamps THEN Out(ErrRes("deleteById"), table, nextId, lookup)
                 ELSE IF ~soft.ok THEN Out(ErrRes("db"), table, nextId, lookup \o <<Stmt("UPDATE")>>)
                 ELSE Out(Res("true", {}, ""), soft.table, nextId, lookup \o <<Stmt("UPDATE")>>)
            ELSE Out(Res("true", {}, ""), hard.table, nextId, lookup \o <<Stmt("DELETE")>>)

\* deleteById(id); hookRaises: the before-destroy hook throws or rejects.
deleteById(id, hookRaises, now) ==
    LET hookTrace == IF hooks.destroy THEN <<Ev("hook", "", "beforeDestroy", HookOutcome(hookRaises), NoValues)>> ELSE <<>>
        record == findById(table, id)
        lookup == hookTrace \o record.trace
        soft == ExecUpdate(table, <<[col |-> timestamps.deletedAt, ph |-> 1]>>, 2, <<now, id>>)
        hard == ExecDelete(table, id)
    IN IF verifyParamType(id) THEN Out(ErrRes("deleteById"), table, nextId, <<>>)
       ELSE IF hooks.destroy /\ hookRaises THEN Out(ErrRes("hook"), table, nextId, hookTrace)
       ELSE IF record.result.kind = "error" THEN Out(record.result, table, nextId, lookup)
       ELSE IF record.result.kind = "null" THEN Out(Res("false", {}, ""), table, nextId, lookup)
       ELSE IF paranoidTable
            THEN IF ~useTimestamps THEN Out(ErrRes("deleteById"), table, nextId, lookup)
                 ELSE IF ~soft.ok THEN Out(ErrRes("db"), table, nextId, lookup \o <<Stmt("UPDATE")>>)
                 ELSE Out(Res("true", {}, ""), soft.table, nextId, lookup \o <<Stmt("UPDATE")>>)
            ELSE Out(Res("true", {}, ""), hard.table, nextId, lookup \o <<Stmt("DELETE")>>)

\* ---------------------------------------------------------------- actions

LastWhere(op, id, values, where, o) ==
    [op |-> op, id |-> id, values |-> values, result |-> o.result, trace |-> o.trace, before |-> table,
     where |-> where]

Last(op, id, values, o) == LastWhere(op, id, values, <<>>, o)

IdInputs == (1..MaxId) \cup {NotANumber}

\* The columns define compiles into #selectQuery.
TsCols(ts) == {ObjectValues(ts)[i] : i \in 1..3}

SeqSet(seq) == {seq[i] : i \in 1..Len(seq)}

SelectColumns(cols, useTs, ts) == SeqSet(cols) \cup (IF useTs THEN TsCols(ts) ELSE {})

\* How many deleteById calls may be in flight together.
MaxDelete == 2

\* A deleteById call that has not been made.
IdleDelete == [pc |-> "idle", id |-> 0, result |-> Res("undefined", {}, ""), log |-> <<>>, during |-> {}]

\* The deleteById slots before any overlapping call.
NoDeletes == deleteCalls = [k \in 1..MaxDelete |-> IdleDelete]

\* The options variables where neither setOptions nor another constructor runs.
NoConfig ==
    /\ globalConfigOptions = <<>>
    /\ setOptionsCalls = <<>>
    /\ models = <<>>

\* The addForeignKey variables of a model on which it is not called.
NoForeignKeys ==
    /\ pkNames = [child |-> "id", parent |-> "id"]
    /\ constraints = {}
    /\ nFk = 0
    /\ fkCalls = <<>>

\* A define call that has not been made.
IdleChain == [pc |-> "idle", cols |-> <<>>, createCols |-> {}, tsSchema |-> <<>>, rows |-> {},
              alter |-> <<>>, alterState |-> "none", log |-> <<>>, liveAtCall |-> {}, afterSame |-> FALSE,
              alone |-> FALSE, raised |-> "", escaped |-> ""]

\* The define variables of a model whose define has run to its end.
DefineDone ==
    /\ alter = FALSE
    /\ columns = Columns
    /\ isTableCreated = TRUE
    /\ tableExists = TRUE
    /\ nDefines = 0
    /\ chains = <<>>

\* The model after construction, define and the registration of its hooks
\* (beforeCreate, beforeUpdate and beforeDestroy, or none), on a table that
\* has the declared columns; the table has the timestamp columns when define
\* created it with timestamps enabled or an earlier definition left them.
Init ==
    /\ paranoidTable \in BOOLEAN
    /\ useTimestamps \in BOOLEAN
    /\ timestamps \in (IF useTimestamps THEN TimestampNames ELSE {timestampsObj})
    /\ hooks \in {[create |-> h, update |-> h, destroy |-> h] : h \in BOOLEAN}
    /\ selectQuery = SelectColumns(Columns, useTimestamps, timestamps)
    /\ liveCols \in {ColSet, ColSet \cup TsCols(timestamps)}
    /\ DefineDone
    /\ NoForeignKeys
    /\ NoDeletes
    /\ NoConfig
    /\ table = {}
    /\ nextId = 1
    /\ last = [op |-> "define", id |-> 0, values |-> NoValues, result |-> Res("undefined", {}, ""),
               trace |-> <<>>, before |-> {}, where |-> <<>>]

Frame == UNCHANGED <<paranoidTable, useTimestamps, timestamps, selectQuery, liveCols, defVars, fkVars, cfgVars, delVars>>

FindById ==
    \E id \in IdInputs :
        /\ last' = Last("findById", id, NoValues, findById(table, id))
        /\ UNCHANGED <<hooks, table, nextId>> /\ Frame

\* The column and value arguments of findOne: a declared column, a name that
\* is no property of the columns object, or an inherited property's name.
ColumnInputs == ColSet \cup {"zz"} \cup ObjectPrototype
ValueInputs == {"x", UNDEF}

\* The clauses findAllWhere is called with: none, one condition, two joined
\* by OR, two joined by AND.
WhereInputs ==
    { <<>>,
      <<<<Eq("a", "x")>>>>,
      <<<<Eq("a", "x")>>, <<Eq("b", "x")>>>>,
      <<<<Eq("a", "x"), Eq("b", "x")>>>> }

FindAll ==
    /\ last' = Last("findAll", 0, NoValues, findAll)
    /\ UNCHANGED <<hooks, table, nextId>> /\ Frame

FindAllWhere ==
    \E whereClause \in WhereInputs :
        /\ last' = LastWhere("findAllWhere", 0, NoValues, whereClause, findAllWhere(whereClause))
        /\ UNCHANGED <<hooks, table, nextId>> /\ Frame

FindOne ==
    \E column \in ColumnInputs, value \in ValueInputs :
        /\ last' = LastWhere("findOne", 0, NoValues, <<<<Eq(column, value)>>>>, findOne(column, value))
        /\ UNCHANGED <<hooks, table, nextId>> /\ Frame

Create ==
    \E values \in Inputs, hookRaises \in BOOLEAN, now \in Times :
        /\ nextId <= MaxId
        /\ hookRaises => hooks.create
        /\ LET o == create(values, hookRaises, now)
           IN /\ table' = o.table
              /\ nextId' = o.nextId
              /\ last' = Last("create", 0, values, o)
        /\ UNCHANGED hooks /\ Frame

UpdateById ==
    \E id \in IdInputs, values \in Inputs, hookRaises \in BOOLEAN, now \in Times :
        /\ hookRaises => hooks.update
        /\ verifyParamType(id) => values = NoValues /\ ~hookRaises
        /\ LET o == updateById(id, values, hookRaises, now)
           IN /\ table' = o.table
              /\ last' = Last("updateById", id, values, o)
        /\ UNCHANGED <<hooks, nextId>> /\ Frame

DeleteById ==
    \E id \in IdInputs, hookRaises \in BOOLEAN, now \in Times :
        /\ hookRaises => hooks.destroy
        /\ verifyParamType(id) => ~hookRaises
        /\ LET o == deleteById(id, hookRaises, now)
           IN /\ table' = o.table
              /\ last' = Last("deleteById", id, NoValues, o)
        /\ UNCHANGED <<hooks, nextId>> /\ Frame

Next ==
    \/ FindAll
    \/ FindAllWhere
    \/ FindOne
    \/ FindById
    \/ Create
    \/ UpdateById
    \/ DeleteById

Spec == Init /\ [][Next]_vars

\* ------------------------------------------- deleteById, statement by statement

\* deleteById as the event loop runs it when calls overlap: the call runs to
\* its first database await, the lookup and the write are separate statements,
\* and statements of other calls may run between them.

\* The slot of the next call.
FreeSlot == CHOOSE k \in 1..MaxDelete :
                /\ deleteCalls[k].pc = "idle"
                /\ \A j \in 1..(k - 1) : deleteCalls[j].pc # "idle"

\* The calls that have been made and have not returned.
InFlight == {k \in 1..MaxDelete : deleteCalls[k].pc \in {"lookup", "write"}}

\* deleteById(id) up to its lookup: the argument check and the hook.
DeleteByIdCall ==
    \E id \in IdInputs, hookRaises \in BOOLEAN :
        /\ \E k \in 1..MaxDelete : deleteCalls[k].pc = "idle"
        /\ hookRaises => hooks.destroy
        /\ deleteCalls' = [deleteCalls EXCEPT ![FreeSlot] =
               IF verifyParamType(id)
               THEN [IdleDelete EXCEPT !.pc = "done", !.id = id, !.result = ErrRes("deleteById")]
               ELSE IF hooks.destroy /\ hookRaises
               THEN [IdleDelete EXCEPT !.pc = "done", !.id = id, !.result = ErrRes("hook"),
                                       !.log = <<"hook">>]
               ELSE [IdleDelete EXCEPT !.pc = "lookup", !.id = id, !.during = InFlight,
                                       !.log = IF hooks.destroy THEN <<"hook">> ELSE <<>>]]
        /\ UNCHANGED <<crudVars, defVars, fkVars, cfgVars>>

\* const record = await this.findById(id), and the branches on its result.
DeleteByIdLookup ==
    \E k \in 1..MaxDelete :
        /\ deleteCalls[k].pc = "lookup"
        /\ LET c == deleteCalls[k]
               record == findById(table, c.id)
               log == c.log \o <<"SELECT">>
           IN deleteCalls' = [deleteCalls EXCEPT ![k] =
                  IF record.result.kind = "error"
                  THEN [c EXCEPT !.pc = "done", !.result = record.result, !.log = log]
                  ELSE IF record.result.kind = "null"
                  THEN [c EXCEPT !.pc = "done", !.result = Res("false", {}, ""), !.log = log]
                  ELSE IF paranoidTable /\ ~useTimestamps
                  THEN [c EXCEPT !.pc = "done", !.result = ErrRes("deleteById"), !.log = log]
                  ELSE [c EXCEPT !.pc = "write", !.log = log]]
        /\ UNCHANGED <<crudVars, defVars, fkVars, cfgVars>>

\* The UPDATE of deleted_at or the DELETE, and return true.
DeleteByIdWrite ==
    \E k \in 1..MaxDelete, now \in Times :
        /\ deleteCalls[k].pc = "write"
        /\ LET c == deleteCalls[k]
               soft == ExecUpdate(table, <<[col |-> timestamps.deletedAt, ph |-> 1]>>, 2, <<now, c.id>>)
               hard == ExecDelete(table, c.id)
           IN IF paranoidTable
              THEN IF ~soft.ok
                   THEN /\ table' = table
                        /\ deleteCalls' = [deleteCalls EXCEPT ![k] =
                               [c EXCEPT !.pc = "done", !.result = ErrRes("db"), !.log = c.log \o <<"UPDATE">>]]
                   ELSE /\ table' = soft.table
                        /\ deleteCalls' = [deleteCalls EXCEPT ![k] =
                               [c EXCEPT !.pc = "done", !.result = Res("true", {}, ""), !.log = c.log \o <<"UPDATE">>]]
              ELSE /\ table' = hard.table
                   /\ deleteCalls' = [deleteCalls EXCEPT ![k] =
                          [c EXCEPT !.pc = "done", !.result = Res("true", {}, ""), !.log = c.log \o <<"DELETE">>]]
        /\ UNCHANGED <<paranoidTable, useTimestamps, timestamps, hooks, selectQuery, liveCols, nextId, last>>
        /\ UNCHANGED <<defVars, fkVars, cfgVars>>

NextDelete == Create \/ DeleteByIdCall \/ DeleteByIdLookup \/ DeleteByIdWrite

SpecDelete == Init /\ [][NextDelete]_vars

\* ------------------------------------------------------------------ define

\* How many define calls a behaviour makes.
MaxDefine == 2

\* The columns objects define is called with.
DefineInputs == {<<"a">>, <<"a", "b">>}

\* The live tables define can meet: none of the declared columns or some, no
\* timestamp column, one or all.
LiveInit(ts) == {S \cup T : S \in SUBSET {"a", "b"}, T \in {{}, {ts.createdAt}, TsCols(ts)}}

\* Every earlier define call has run to its end: its chain has settled and
\* the ALTER TABLE it sent, if any, has been executed.
Settled(c) == c.pc \in {"done", "failed"} /\ c.alterState # "pending"

\* Mutant of AlterColumns: the timestamp columns are added whenever
\* timestamps are on, missing or not.
AlterColumns_always(rows, tsSchema) ==
    LET missingColumns == SelectSeq(columns, LAMBDA col : col \notin rows)
        colsSchema == [i \in 1..Len(missingColumns) |-> [name |-> missingColumns[i], ifNotExists |-> FALSE]]
        tsAdds == [i \in 1..Len(tsSchema) |-> [name |-> tsSchema[i], ifNotExists |-> TRUE]]
    IN IF ~alter THEN <<>>
       ELSE IF useTimestamps THEN colsSchema \o tsAdds
       ELSE colsSchema

\* Mutant of AlterColumns: the alter option is not looked at.
AlterColumns_unasked(rows, tsSchema) ==
    LET missingColumns == SelectSeq(columns, LAMBDA col : col \notin rows)
        missingTimestamps == SelectSeq(ObjectValues(timestamps), LAMBDA ts : ts \notin rows)
        colsSchema == [i \in 1..Len(missingColumns) |-> [name |-> missingColumns[i], ifNotExists |-> FALSE]]
        tsAdds == [i \in 1..Len(tsSchema) |-> [name |-> tsSchema[i], ifNotExists |-> TRUE]]
    IN IF Len(missingTimestamps) > 0 /\ useTimestamps THEN colsSchema \o tsAdds
       ELSE colsSchema

\* Mutant of AlterColumns: only the missing declared columns are added, the
\* timestamp columns never.
AlterColumns_declaredOnly(rows, tsSchema) ==
    LET missingColumns == SelectSeq(columns, LAMBDA col : col \notin rows)
        colsSchema == [i \in 1..Len(missingColumns) |-> [name |-> missingColumns[i], ifNotExists |-> FALSE]]
    IN IF ~alter THEN <<>> ELSE colsSchema

\* The ALTER TABLE define's chain sends, as [name, ifNotExists] column
\* additions: ADD COLUMN <schema> for each missing declared column, then, when
\* a timestamp column is missing and timestamps are on, ADD COLUMN IF NOT
\* EXISTS for each timestamp column.
AlterColumns(rows, tsSchema) ==
    LET missingColumns == SelectSeq(columns, LAMBDA col : col \notin rows)
        missingTimestamps == SelectSeq(ObjectValues(timestamps), LAMBDA ts : ts \notin rows)
        colsSchema == [i \in 1..Len(missingColumns) |-> [name |-> missingColumns[i], ifNotExists |-> FALSE]]
        tsAdds == [i \in 1..Len(tsSchema) |-> [name |-> tsSchema[i], ifNotExists |-> TRUE]]
    IN IF ~alter THEN <<>>
       ELSE IF Len(missingTimestamps) > 0 /\ useTimestamps THEN colsSchema \o tsAdds
       ELSE colsSchema

\* define(columns), up to the CREATE TABLE query it sends without waiting.
Define ==
    \E cols \in DefineInputs :
        /\ nDefines < MaxDefine
        /\ nDefines' = nDefines + 1
        /\ columns' = cols
        /\ selectQuery' = SelectColumns(cols, useTimestamps, timestamps)
        /\ chains' = [chains EXCEPT ![nDefines + 1] =
               [pc |-> "create",
                cols |-> cols,
                createCols |-> SelectColumns(cols, useTimestamps, timestamps),
                tsSchema |-> ObjectValues(timestamps),
                rows |-> {},
                alter |-> <<>>,
                alterState |-> "none",
                log |-> <<"CREATE TABLE">>,
                liveAtCall |-> liveCols,
                alone |-> \A j \in 1..nDefines : Settled(chains[j]),
                raised |-> "",
                escaped |-> "",
                afterSame |-> /\ nDefines >= 1
                              /\ \A j \in 1..nDefines : Settled(chains[j])
                              /\ chains[nDefines].pc = "done"
                              /\ chains[nDefines].alterState # "failed"
                              /\ tableExists
                              /\ chains[nDefines].cols = cols]]
        /\ UNCHANGED <<paranoidTable, useTimestamps, timestamps, hooks, liveCols, table, nextId, last>>
        /\ UNCHANGED <<alter, isTableCreated, tableExists, fkVars, cfgVars, delVars>>

\* Mutant of CreateTable: the table is made anew with the declared columns.
CreateTable_anew ==
    \E k \in 1..MaxDefine :
        /\ chains[k].pc = "create"
        /\ tableExists' = TRUE
        /\ liveCols' = chains[k].createCols
        /\ isTableCreated' = TRUE
        /\ chains' = [chains EXCEPT ![k].pc = "introspect", ![k].log = @ \o <<"SELECT">>]
        /\ UNCHANGED <<paranoidTable, useTimestamps, timestamps, hooks, selectQuery, table, nextId, last>>
        /\ UNCHANGED <<alter, columns, nDefines, fkVars, cfgVars, delVars>>

\* CREATE TABLE IF NOT EXISTS is executed; the first .then sets isTableCreated
\* and sends the information_schema query.
CreateTable ==
    \E k \in 1..MaxDefine :
        /\ chains[k].pc = "create"
        /\ tableExists' = TRUE
        /\ liveCols' = IF tableExists THEN liveCols ELSE chains[k].createCols
        /\ isTableCreated' = TRUE
        /\ chains' = [chains EXCEPT ![k].pc = "introspect", ![k].log = @ \o <<"SELECT">>]
        /\ UNCHANGED <<paranoidTable, useTimestamps, timestamps, hooks, selectQuery, table, nextId, last>>
        /\ UNCHANGED <<alter, columns, nDefines, fkVars, cfgVars, delVars>>

\* The information_schema query is executed: its rows are the live columns.
Introspect ==
    \E k \in 1..MaxDefine :
        /\ chains[k].pc = "introspect"
        /\ chains' = [chains EXCEPT ![k].pc = "reconcile", ![k].rows = liveCols]
        /\ UNCHANGED crudVars
        /\ UNCHANGED <<alter, columns, isTableCreated, tableExists, nDefines, fkVars, cfgVars, delVars>>

\* The second .then: the missing columns are worked out from this.columns and
\* the rows, and ALTER TABLE is sent (not awaited) when there is one to add.
Reconcile ==
    \E k \in 1..MaxDefine :
        /\ chains[k].pc = "reconcile"
        /\ LET adds == AlterColumns(chains[k].rows, chains[k].tsSchema)
           IN chains' = [chains EXCEPT ![k].pc = "done",
                                       ![k].alter = adds,
                                       ![k].alterState = IF adds = <<>> THEN "none" ELSE "pending",
                                       ![k].log = IF adds = <<>> THEN @ ELSE @ \o <<"ALTER TABLE">>]
        /\ UNCHANGED crudVars
        /\ UNCHANGED <<alter, columns, isTableCreated, tableExists, nDefines, fkVars, cfgVars, delVars>>

\* The ALTER TABLE a chain sent is executed: it fails as a whole when it adds,
\* without IF NOT EXISTS, a column the table has (or adds one twice).
ExecAlter ==
    \E k \in 1..MaxDefine :
        /\ chains[k].alterState = "pending"
        /\ LET adds == chains[k].alter
               fails == \/ \E i \in 1..Len(adds) : ~adds[i].ifNotExists /\ adds[i].name \in liveCols
                        \/ \E i, j \in 1..Len(adds) : i # j /\ ~adds[j].ifNotExists /\ adds[i].name = adds[j].name
           IN /\ liveCols' = IF fails THEN liveCols ELSE liveCols \cup {adds[i].name : i \in 1..Len(adds)}
              /\ chains' = [chains EXCEPT ![k].alterState = IF fails THEN "failed" ELSE "done",
                                          ![k].escaped = IF fails THEN "ALTER TABLE" ELSE @]
        /\ UNCHANGED <<paranoidTable, useTimestamps, timestamps, hooks, selectQuery, table, nextId, last>>
        /\ UNCHANGED <<alter, columns, isTableCreated, tableExists, nDefines, fkVars, cfgVars, delVars>>

\* Mutant of CreateTableFails: the model is marked as created all the same.
CreateTableFails_marks ==
    \E k \in 1..MaxDefine :
        /\ chains[k].pc = "create"
        /\ chains' = [chains EXCEPT ![k].pc = "failed", ![k].raised = "define"]
        /\ isTableCreated' = TRUE
        /\ UNCHANGED crudVars
        /\ UNCHANGED <<alter, columns, tableExists, nDefines, fkVars, cfgVars, delVars>>

\* CREATE TABLE fails in the database: the chain's .catch throws the
\* PgormError of define, and the first .then never runs.
CreateTableFails ==
    \E k \in 1..MaxDefine :
        /\ chains[k].pc = "create"
        /\ chains' = [chains EXCEPT ![k].pc = "failed", ![k].raised = "define"]
        /\ UNCHANGED crudVars
        /\ UNCHANGED <<alter, columns, isTableCreated, tableExists, nDefines, fkVars, cfgVars, delVars>>

\* The information_schema query fails: the .catch throws the PgormError.
IntrospectFails ==
    \E k \in 1..MaxDefine :
        /\ chains[k].pc = "introspect"
        /\ chains' = [chains EXCEPT ![k].pc = "failed", ![k].raised = "define"]
        /\ UNCHANGED crudVars
        /\ UNCHANGED <<alter, columns, isTableCreated, tableExists, nDefines, fkVars, cfgVars, delVars>>

\* The ALTER TABLE fails in the database for a reason of its own (a fragment
\* the table cannot take): its promise, which the .then neither awaits nor
\* returns, rejects outside the chain.
AlterFails ==
    \E k \in 1..MaxDefine :
        /\ chains[k].alterState = "pending"
        /\ chains' = [chains EXCEPT ![k].alterState = "failed", ![k].escaped = "ALTER TABLE"]
        /\ UNCHANGED crudVars
        /\ UNCHANGED <<alter, columns, isTableCreated, tableExists, nDefines, fkVars, cfgVars, delVars>>

\* The model after construction, before define, on a database that may hold
\* the table already.
InitDefine ==
    /\ paranoidTable = FALSE
    /\ useTimestamps \in BOOLEAN
    /\ timestamps = timestampsObj
    /\ hooks = [create |-> FALSE, update |-> FALSE, destroy |-> FALSE]
    /\ selectQuery = {}
    /\ tableExists \in BOOLEAN
    /\ liveCols \in (IF tableExists THEN LiveInit(timestamps) ELSE {{}})
    /\ table = {}
    /\ nextId = 1
    /\ last = [op |-> "constructor", id |-> 0, values |-> NoValues, result |-> Res("undefined", {}, ""),
               trace |-> <<>>, before |-> {}, where |-> <<>>]
    /\ alter \in BOOLEAN
    /\ columns = <<>>
    /\ isTableCreated = FALSE
    /\ nDefines = 0
    /\ chains = [k \in 1..MaxDefine |-> IdleChain]
    /\ NoForeignKeys
    /\ NoDeletes
    /\ NoConfig

NextDefine ==
    \/ Define
    \/ CreateTable
    \/ Introspect
    \/ Reconcile
    \/ ExecAlter
    \/ CreateTableFails
    \/ IntrospectFails
    \/ AlterFails

SpecDefine == InitDefine /\ [][NextDefine]_vars

\* define on a database whose statements fail only for what they say: every
\* statement sent is executed and every callback of the chain runs.
NextDefineReliable ==
    \/ Define
    \/ CreateTable
    \/ Introspect
    \/ Reconcile
    \/ ExecAlter

SpecDefineReliable ==
    /\ InitDefine
    /\ [][NextDefineReliable]_vars
    /\ WF_vars(CreateTable)
    /\ WF_vars(Introspect)
    /\ WF_vars(Reconcile)
    /\ WF_vars(ExecAlter)

\* ----------------------------------------------------------- addForeignKey

\* How many addForeignKey calls a behaviour makes.
MaxFk == 2

\* An argument that is not a string (typeof fkName !== 'string').
NotAString == "<not a string>"

\* The fkName arguments: two column names of which the table may lack the
\* second, or no string at all.
FkNames == {"a", "b", NotAString}

\* The parentTableName arguments.
ParentNames == {"users", NotAString}

\* The names a primary key column is configured with (pkName).
PkNames == {"id", "uid"}

\* `${this.tableName}_${fkName}_fkey`, the table name being fixed.
contraintName(fkName) == fkName

\* An addForeignKey call that has not been made.
IdleFk == [pc |-> "idle", fkName |-> "", parent |-> "", name |-> "", err |-> "",
           log |-> <<>>, existedAtCall |-> FALSE]

\* Mutant of AddForeignKey: the column is looked up before the method
\* returns, and a missing one throws at the call site.
AddForeignKey_blocking ==
    \E fkName \in FkNames, parentTableName \in ParentNames :
        /\ nFk < MaxFk
        /\ nFk' = nFk + 1
        /\ fkCalls' = [fkCalls EXCEPT ![nFk + 1] =
               IF fkName = NotAString \/ parentTableName = NotAString \/ fkName \notin liveCols
               THEN [IdleFk EXCEPT !.pc = "threw", !.fkName = fkName, !.parent = parentTableName,
                                   !.err = "addForeignKey"]
               ELSE [pc |-> "column", fkName |-> fkName, parent |-> parentTableName,
                     name |-> contraintName(fkName), err |-> "",
                     log |-> <<"SELECT column">>,
                     existedAtCall |-> \E c \in constraints : c.name = contraintName(fkName)]]
        /\ UNCHANGED <<crudVars, defVars, cfgVars, delVars, pkNames, constraints>>

\* addForeignKey(fkName, parentTableName), up to the start of its async
\* function: it throws at once for a non-string argument, and otherwise
\* returns with the column query sent.
AddForeignKey ==
    \E fkName \in FkNames, parentTableName \in ParentNames :
        /\ nFk < MaxFk
        /\ nFk' = nFk + 1
        /\ fkCalls' = [fkCalls EXCEPT ![nFk + 1] =
               IF fkName = NotAString \/ parentTableName = NotAString
               THEN [IdleFk EXCEPT !.pc = "threw", !.fkName = fkName, !.parent = parentTableName,
                                   !.err = "addForeignKey"]
               ELSE [pc |-> "column", fkName |-> fkName, parent |-> parentTableName,
                     name |-> contraintName(fkName), err |-> "",
                     log |-> <<"SELECT column">>,
                     existedAtCall |-> \E c \in constraints : c.name = contraintName(fkName)]]
        /\ UNCHANGED <<crudVars, defVars, cfgVars, delVars, pkNames, constraints>>

\* Mutant of FkColumnCheck: the answer of the column query is not looked at.
FkColumnCheck_skip ==
    \E k \in 1..MaxFk :
        /\ fkCalls[k].pc = "column"
        /\ fkCalls' = [fkCalls EXCEPT ![k] = [@ EXCEPT !.pc = "constraint", !.log = @ \o <<"SELECT constraint">>]]
        /\ UNCHANGED <<crudVars, defVars, cfgVars, delVars, pkNames, constraints, nFk>>

\* The information_schema.columns query is executed; a missing column throws
\* inside the try, which the catch wraps and throws again: the async
\* function's promise, which nobody holds, rejects.
FkColumnCheck ==
    \E k \in 1..MaxFk :
        /\ fkCalls[k].pc = "column"
        /\ fkCalls' = [fkCalls EXCEPT ![k] =
               IF fkCalls[k].fkName \in liveCols
               THEN [@ EXCEPT !.pc = "constraint", !.log = @ \o <<"SELECT constraint">>]
               ELSE [@ EXCEPT !.pc = "rejected", !.err = "column"]]
        /\ UNCHANGED <<crudVars, defVars, cfgVars, delVars, pkNames, constraints, nFk>>

\* The information_schema.table_constraints query is executed; when the
\* constraint is not there the ALTER TABLE ... ADD CONSTRAINT is sent.
FkConstraintCheck ==
    \E k \in 1..MaxFk :
        /\ fkCalls[k].pc = "constraint"
        /\ fkCalls' = [fkCalls EXCEPT ![k] =
               IF \E c \in constraints : c.name = fkCalls[k].name
               THEN [@ EXCEPT !.pc = "done"]
               ELSE [@ EXCEPT !.pc = "alter", !.log = @ \o <<"ALTER TABLE">>]]
        /\ UNCHANGED <<crudVars, defVars, cfgVars, delVars, pkNames, constraints, nFk>>

\* The column the ADD CONSTRAINT statement names after REFERENCES "<parent>":
\* ${this.#pkName}, the primary key name of the model addForeignKey is called on.
ReferencedColumn == pkNames.child

\* ALTER TABLE t ADD CONSTRAINT <name> FOREIGN KEY (<fkName>) REFERENCES
\* "<parent>" (<this.#pkName>) is executed: it fails when the table has a
\* constraint of that name or the parent has no such column.
FkAlter ==
    \E k \in 1..MaxFk :
        /\ fkCalls[k].pc = "alter"
        /\ LET fails == \/ \E c \in constraints : c.name = fkCalls[k].name
                        \/ ReferencedColumn # pkNames.parent
           IN /\ constraints' = IF fails THEN constraints
                                ELSE constraints \cup {[name |-> fkCalls[k].name, col |-> fkCalls[k].fkName,
                                                        parent |-> fkCalls[k].parent, ref |-> ReferencedColumn]}
              /\ fkCalls' = [fkCalls EXCEPT ![k] =
                     IF fails THEN [@ EXCEPT !.pc = "rejected", !.err = "alter"]
                     ELSE [@ EXCEPT !.pc = "done"]]
        /\ UNCHANGED <<crudVars, defVars, cfgVars, delVars, pkNames, nFk>>

\* The model after construction and define, on a table that has column a and
\* may have column b, without foreign keys.
InitFk ==
    /\ paranoidTable = FALSE
    /\ useTimestamps = FALSE
    /\ timestamps = timestampsObj
    /\ hooks = [create |-> FALSE, update |-> FALSE, destroy |-> FALSE]
    /\ selectQuery = SelectColumns(Columns, useTimestamps, timestamps)
    /\ liveCols \in {{"a"}, {"a", "b"}}
    /\ table = {}
    /\ nextId = 1
    /\ last = [op |-> "define", id |-> 0, values |-> NoValues, result |-> Res("undefined", {}, ""),
               trace |-> <<>>, before |-> {}, where |-> <<>>]
    /\ DefineDone
    /\ pkNames \in [child : PkNames, parent : PkNames]
    /\ constraints = {}
    /\ nFk = 0
    /\ fkCalls = [k \in 1..MaxFk |-> IdleFk]
    /\ NoDeletes
    /\ NoConfig

NextFk ==
    \/ AddForeignKey
    \/ FkColumnCheck
    \/ FkConstraintCheck
    \/ FkAlter

SpecFk == InitFk /\ [][NextFk]_vars

\* ------------------------------------------------- options and construction

\* How many times setOptions is called, and how many models are constructed.
MaxSetOptions == 2
MaxModels == 2

\* A key an options object does not have.
ABSENT == "<absent>"

\* The configuration keys, and the keys of a model's options.
ConfigKeys == {"tablePrefix", "tableSchema", "pkName", "timestamps", "paranoid", "alter", "errorLogs"}
OptionKeys == ConfigKeys \cup {"tableName"}

\* An options object, from the record of the keys it has.
Opt(r) == [k \in OptionKeys |-> IF k \in DOMAIN r THEN r[k] ELSE ABSENT]

\* {...a, ...b}
Spread(a, b) == [k \in OptionKeys |-> IF b[k] # ABSENT THEN b[k] ELSE a[k]]

\* The object with no key, which is also what spreading undefined adds.
NoOptions == [k \in OptionKeys |-> ABSENT]

globalOptions ==
    Opt([tablePrefix |-> "", tableSchema |-> "public", pkName |-> "id", timestamps |-> "false",
         paranoid |-> "false", alter |-> "false", errorLogs |-> "false"])

modalOptions == Spread(globalOptions, Opt([tableName |-> ""]))

\* The timestamps option's objects: maps that rename timestamp columns.
RenameMaps == {"renameAll", "renameDeleted"}

\* The keys a rename map has, with the names it gives.
RenameMap(v) ==
    IF v = "renameAll"
    THEN [createdAt |-> "made_at", updatedAt |-> "changed_at", deletedAt |-> "removed_at"]
    ELSE [createdAt |-> ABSENT, updatedAt |-> ABSENT, deletedAt |-> "removed_at"]

\* The arguments setOptions is called with.
SetOptionsInputs ==
    { NoOptions,
      Opt([pkName |-> "gid", tablePrefix |-> "g_"]),
      Opt([paranoid |-> "true", timestamps |-> "true", alter |-> "true"]),
      Opt([tableSchema |-> "gs", errorLogs |-> "true"]) }

\* The options arguments a model is constructed with, when it is given one.
ModelOptionsInputs ==
    { NoOptions,
      Opt([pkName |-> "mid", tableName |-> "t", tablePrefix |-> "m_"]),
      Opt([timestamps |-> "renameAll", paranoid |-> "true"]),
      Opt([timestamps |-> "renameDeleted"]),
      Opt([tableSchema |-> "ms", timestamps |-> "false", paranoid |-> "false", alter |-> "false",
           errorLogs |-> "false"]) }

\* static setOptions(options)
setOptions(options) == Spread(globalOptions, options)

\* this.#configOptions of the constructor: an omitted options argument is the
\* default parameter value, modalOptions.
configOptionsOf(given, options) ==
    Spread(Spread(modalOptions, globalConfigOptions), IF given THEN options ELSE modalOptions)

\* The static #timestamps after the constructor of a model with these options.
timestampsAfter(cfg) ==
    IF cfg["timestamps"] \in RenameMaps
    THEN [k \in DOMAIN timestamps |->
             IF RenameMap(cfg["timestamps"])[k] # ABSENT THEN RenameMap(cfg["timestamps"])[k]
             ELSE timestamps[k]]
    ELSE timestamps

\* The fields of the model the constructor makes.
constructor(modelName, given, options) ==
    LET cfg == configOptionsOf(given, options)
    IN [modelName |-> modelName,
        given |-> given,
        options |-> options,
        setOptionsBefore |-> Len(setOptionsCalls),
        configOptions |-> cfg,
        pkName |-> cfg["pkName"],
        tablePrefix |-> cfg["tablePrefix"],
        tableSchema |-> cfg["tableSchema"],
        paranoidTable |-> cfg["paranoid"] = "true",
        enableErrorLogs |-> cfg["errorLogs"] = "true",
        tableName |-> IF cfg["tableName"] # "" THEN <<cfg["tablePrefix"], cfg["tableName"]>>
                      ELSE <<cfg["tablePrefix"], modelName>>,
        useTimestamps |-> IF cfg["timestamps"] \in RenameMaps THEN TRUE ELSE cfg["timestamps"] = "true",
        timestampsThen |-> timestampsAfter(cfg)]

\* The timestamp column names the statements of model m name when they are
\* built: define, create, updateById and deleteById read the static
\* #timestamps when timestamps are on, #checkForDeletion when the model is
\* paranoid.
timestampNamesOf(m) ==
    IF m.useTimestamps \/ m.paranoidTable THEN timestamps ELSE timestampsObj

SetOptions ==
    \E options \in SetOptionsInputs :
        /\ Len(setOptionsCalls) < MaxSetOptions
        /\ setOptionsCalls' = Append(setOptionsCalls, options)
        /\ globalConfigOptions' = setOptions(options)
        /\ UNCHANGED <<crudVars, defVars, fkVars, models, delVars>>

Construct ==
    \E given \in BOOLEAN, options \in ModelOptionsInputs :
        /\ Len(models) < MaxModels
        /\ given \/ options = NoOptions
        /\ LET m == constructor("model", given, options)
           IN /\ models' = Append(models, m)
              /\ timestamps' = m.timestampsThen
        /\ UNCHANGED <<paranoidTable, useTimestamps, hooks, selectQuery, liveCols, table, nextId, last>>
        /\ UNCHANGED <<defVars, fkVars, globalConfigOptions, setOptionsCalls, delVars>>

\* The class as loaded: no options set, no model constructed.
InitConfig ==
    /\ paranoidTable = FALSE
    /\ useTimestamps = FALSE
    /\ timestamps = timestampsObj
    /\ hooks = [create |-> FALSE, update |-> FALSE, destroy |-> FALSE]
    /\ selectQuery = {}
    /\ liveCols = {}
    /\ table = {}
    /\ nextId = 1
    /\ last = [op |-> "load", id |-> 0, values |-> NoValues, result |-> Res("undefined", {}, ""),
               trace |-> <<>>, before |-> {}, where |-> <<>>]
    /\ DefineDone
    /\ NoForeignKeys
    /\ NoDeletes
    /\ globalConfigOptions = NoOptions
    /\ setOptionsCalls = <<>>
    /\ models = <<>>

NextConfig ==
    \/ SetOptions
    \/ Construct

SpecConfig == InitConfig /\ [][NextConfig]_vars

\* ------------------------------------------------------- claims: CRUD engine

TheRow(res) == CHOOSE r \in res.rows : TRUE

\* The columns the caller's input object has a key for.
Supplied(values) == {c \in ColSet : values[c] # UNDEF}

ValidatorNames == {ValidatorCalls(1)[k].fn : k \in 1..Len(ValidatorCalls(1))}

\* The call was not aborted by a validator or a hook.
NotAborted == ~(last.result.kind = "error" /\ last.result.err \in ValidatorNames \cup {"hook"})

Statements(trace) == SelectSeq(trace, LAMBDA e : e.ev \in {"SELECT", "INSERT", "UPDATE", "DELETE"})

ValidatorEvents(trace) == SelectSeq(trace, LAMBDA e : e.ev = "validator")

\* C1: create(values) followed by findById on the returned primary key returns
\* a row that holds, for every column the input has, the input's value: 0,
\* false and '' included.
C1_CreateThenFindByIdReturnsInput ==
    (last.op = "create" /\ last.result.kind = "row") =>
        LET found == findById(table, TheRow(last.result).id).result
        IN /\ found.kind = "row"
           /\ \A c \in Supplied(last.values) : TheRow(found).vals[c] = last.values[c]

\* C2: after updateById(id, {col: v}) has updated an existing row, findById(id)
\* returns a row in which col is v and every other declared column holds
\* what it held before the update.
C2_UpdateOneColumnKeepsTheOthers ==
    (/\ last.op = "updateById"
     /\ Cardinality(Supplied(last.values)) = 1
     /\ findById(last.before, last.id).result.kind = "row"
     /\ last.result.kind = "row") =>
        LET old == TheRow(findById(last.before, last.id).result)
            found == findById(table, last.id).result
        IN /\ found.kind = "row"
           /\ \A c \in ColSet :
                TheRow(found).vals[c] = IF c \in Supplied(last.values) THEN last.values[c] ELSE old.vals[c]

\* The case of C3: a paranoid model with timestamps, deleteById returned true
\* for a row that existed.
C3_Witness ==
    /\ paranoidTable /\ useTimestamps
    /\ last.op = "deleteById" /\ last.result.kind = "true"
    /\ RowsById(last.before, last.id) # {}

\* C3: on a paranoid model with timestamps enabled, after deleteById(id) has
\* returned true for an existing row, findById(id) returns null and the row
\* is still in the table, its deleted-at column set.
C3_SoftDeleteHidesAndKeepsTheRow ==
    C3_Witness =>
        /\ findById(table, last.id).result.kind = "null"
        /\ \E r \in table : r.id = last.id /\ r.vals[timestamps.deletedAt] # NULL

ColIndex(col) == CHOOSE i \in 1..Len(Columns) : Columns[i] = col

FnIndex(col, fn) == CHOOSE k \in 1..Len(Validations(col)) : Validations(col)[k] = fn

\* Validator call e2 is the one that comes right after e1: the column's next
\* validator, or the first validator of the next column that has one.
NextValidator(e1, e2) ==
    \/ /\ e2.col = e1.col
       /\ FnIndex(e2.col, e2.fn) = FnIndex(e1.col, e1.fn) + 1
    \/ /\ ColIndex(e2.col) > ColIndex(e1.col)
       /\ FnIndex(e1.col, e1.fn) = Len(Validations(e1.col))
       /\ FnIndex(e2.col, e2.fn) = 1
       /\ \A i \in (ColIndex(e1.col) + 1)..(ColIndex(e2.col) - 1) : Validations(Columns[i]) = <<>>

\* C4: create and updateById call the validators column by column in
\* declaration order, a column's validators in registration order, each with
\* (value, column name, whole input); when one raises, the call raises that
\* error, the validator is the last thing the call did (no later validator,
\* no before-hook, no INSERT or UPDATE) and the table is as it was.
C4_ValidatorsInOrderFirstFailureAborts ==
    (last.op \in {"create", "updateById"} /\ last.id # NotANumber) =>
        LET calls == ValidatorEvents(last.trace)
            n == Len(calls)
            threw == {k \in 1..Len(last.trace) :
                        last.trace[k].ev = "validator" /\ Rejects(last.trace[k].fn, last.trace[k].val)}
        IN /\ n > 0
           /\ ColIndex(calls[1].col) = 1 /\ FnIndex(calls[1].col, calls[1].fn) = 1
           /\ \A k \in 1..(n - 1) : NextValidator(calls[k], calls[k + 1])
           /\ \A k \in 1..n : calls[k].val = last.values[calls[k].col] /\ calls[k].whole = last.values
           /\ \A k \in 1..n : last.trace[k] = calls[k]
           /\ threw = {} => /\ calls[n].col = Columns[Len(Columns)]
                            /\ FnIndex(calls[n].col, calls[n].fn) = Len(Validations(calls[n].col))
                            /\ ~(last.result.kind = "error" /\ last.result.err \in ValidatorNames)
           /\ threw # {} => /\ threw = {Len(last.trace)}
                            /\ last.result = ErrRes(last.trace[Len(last.trace)].fn)
                            /\ table = last.before

\* The case of C4: the second validator of the first column raised, with a
\* before-hook registered.
C4_Witness ==
    /\ last.op \in {"create", "updateById"}
    /\ hooks.create /\ hooks.update
    /\ last.result = ErrRes("notZero")
    /\ Len(last.trace) = 2

\* C5 as stated: deleteById(id) for an id that has no row returns false, sends
\* only the existence lookup and leaves the table as it was.  Left aside: the
\* calls that the before-destroy hook aborted, and a table that lacks columns
\* define compiled into the SELECT.
C5_AbsentIdReturnsFalse ==
    (/\ last.op = "deleteById" /\ last.id # NotANumber
     /\ RowsById(last.before, last.id) = {}
     /\ selectQuery \subseteq liveCols
     /\ NotAborted) =>
        /\ last.result.kind = "false"
        /\ Statements(last.trace) = <<Stmt("SELECT")>>
        /\ table = last.before

\* C5, amended: deleteById(id) for an id that has no row sends no DELETE and
\* no UPDATE, sends nothing but the existence lookup, leaves the table as it
\* was, and returns false unless the before-destroy hook raises or the lookup
\* itself fails (the live table lacks a column the SELECT names), in which
\* case it raises.
C5_AbsentIdNoWrite ==
    (/\ last.op = "deleteById" /\ last.id # NotANumber
     /\ RowsById(last.before, last.id) = {}) =>
        LET lookupFails == ~(selectQuery \subseteq liveCols)
                           \/ (paranoidTable /\ timestamps.deletedAt \notin liveCols)
        IN /\ table = last.before
           /\ Statements(last.trace) \in {<<>>, <<Stmt("SELECT")>>}
           /\ last.result \in {Res("false", {}, ""), ErrRes("hook"), ErrRes("db")}
           /\ last.result = ErrRes("hook") => hooks.destroy /\ Statements(last.trace) = <<>>
           /\ last.result # ErrRes("hook") => Statements(last.trace) = <<Stmt("SELECT")>>
           /\ last.result = ErrRes("db") <=> (last.result # ErrRes("hook") /\ lookupFails)

\* The case of C5: deleteById returned false for an id without a row.
C5_Witness ==
    /\ last.op = "deleteById" /\ last.id # NotANumber
    /\ RowsById(last.before, last.id) = {}
    /\ last.result.kind = "false"

\* C6 as stated: a deleteById that returns a value returns false exactly when
\* the table holds no row with that id, and true otherwise.
C6_FalseIffNoRow ==
    (last.op = "deleteById" /\ last.result.kind \in {"true", "false"}) =>
        (last.result.kind = "false" <=> RowsById(last.before, last.id) = {})

\* The rows with the id that the model's lookups can see: on a paranoid model
\* those whose deleted-at column is null.
VisibleRows(tbl, id) ==
    {r \in RowsById(tbl, id) : ~paranoidTable \/ r.vals[timestamps.deletedAt] = NULL}

\* C6, amended: a deleteById that returns a value returns false exactly when
\* the table holds no row with that id that is visible to findById (no row,
\* or on a paranoid model a row whose deleted-at column is set), and true
\* otherwise.
C6_FalseIffNoVisibleRow ==
    (last.op = "deleteById" /\ last.result.kind \in {"true", "false"}) =>
        (last.result.kind = "false" <=> VisibleRows(last.before, last.id) = {})

\* The case of C6: deleteById returned false for a soft-deleted row that is
\* still in the table.
C6_Witness ==
    /\ last.op = "deleteById" /\ last.result.kind = "false"
    /\ RowsById(last.before, last.id) # {}

\* C7: on a paranoid model with timestamps disabled every deleteById with a
\* numeric id fails with an error, whether or not the row exists.
C7_ParanoidWithoutTimestampsAlwaysFails ==
    (/\ paranoidTable /\ ~useTimestamps
     /\ last.op = "deleteById" /\ last.id # NotANumber) =>
        last.result.kind = "error"

\* ------------------------------------------------------------ claims: define

\* The case of C8: with alter and timestamps on, a second define with the
\* same columns has run to its end after the first one's ALTER TABLE added
\* what the table lacked.
C8_Witness ==
    /\ alter /\ useTimestamps
    /\ chains[1].alterState = "done"
    /\ chains[2].afterSame
    /\ chains[2].pc = "done"
    /\ nDefines = 2

\* C8: a define called with the column set of the define before it, after
\* that one's reconciliation has run to its end, and followed by no other
\* define, sends no ALTER TABLE, and the live table's columns are those it had
\* when define was called.
C8_SecondDefineChangesNothing ==
    \A k \in 2..MaxDefine :
        (chains[k].pc # "idle" /\ chains[k].afterSame /\ nDefines = k) =>
            /\ chains[k].alterState = "none"
            /\ chains[k].alter = <<>>
            /\ \A i \in 1..Len(chains[k].log) : chains[k].log[i] # "ALTER TABLE"
            /\ liveCols = chains[k].liveAtCall

\* ----------------------------------------------------- claims: addForeignKey

\* Calls j and k, j made first, have the same arguments, both strings, and
\* name a column the table has.
SameFkTwice(j, k) ==
    /\ j < k
    /\ fkCalls[k].pc \notin {"idle", "threw"}
    /\ fkCalls[j].fkName = fkCalls[k].fkName
    /\ fkCalls[j].parent = fkCalls[k].parent
    /\ fkCalls[k].fkName \in liveCols

SentAlter(c) == \E i \in 1..Len(c.log) : c.log[i] = "ALTER TABLE"

\* C9: when addForeignKey is called twice with the same arguments on a model
\* whose column exists (and whose primary key is named as the parent's), the
\* second call sends no ALTER TABLE ADD CONSTRAINT and no call fails on a
\* constraint that is already there.
C9_SecondCallSendsNoAlter ==
    \A j, k \in 1..MaxFk :
        (SameFkTwice(j, k) /\ pkNames.child = pkNames.parent) =>
            /\ ~SentAlter(fkCalls[k])
            /\ fkCalls[j].err # "alter" /\ fkCalls[k].err # "alter"

\* C10: an addForeignKey call for a constraint that the table had when the
\* call was made ends in an error.
C10_ExistingConstraintRaises ==
    \A k \in 1..MaxFk :
        (fkCalls[k].existedAtCall /\ fkCalls[k].pc \in {"done", "rejected"}) =>
            fkCalls[k].pc = "rejected"

\* C11: an addForeignKey call whose column the live table does not have ends
\* in the column error once its column query has been answered; it sends no
\* ALTER TABLE ADD CONSTRAINT and the table gets no constraint on that column.
C11_MissingColumnIsAnError ==
    \A k \in 1..MaxFk :
        (fkCalls[k].pc \notin {"idle", "threw", "column"} /\ fkCalls[k].fkName \notin liveCols) =>
            /\ fkCalls[k].pc = "rejected"
            /\ fkCalls[k].err = "column"
            /\ ~SentAlter(fkCalls[k])
            /\ \A c \in constraints : c.col # fkCalls[k].fkName

\* The case of C11: a call for a column the table lacks has been answered.
C11_Witness ==
    \E k \in 1..MaxFk :
        /\ fkCalls[k].fkName = "b" /\ "b" \notin liveCols
        /\ fkCalls[k].pc = "rejected"

\* --------------------------------------------------------- claims: options

\* The value the layering gives model m for key k: the model's option when
\* the constructor was given one, otherwise the one of the last setOptions
\* call before the construction when it gave one, otherwise the default.
Layered(m, k) ==
    IF m.given /\ m.options[k] # ABSENT THEN m.options[k]
    ELSE IF m.setOptionsBefore > 0 /\ setOptionsCalls[m.setOptionsBefore][k] # ABSENT
         THEN setOptionsCalls[m.setOptionsBefore][k]
    ELSE globalOptions[k]

\* C12: for every configuration key, the effective value of a constructed
\* model is the per-model option when supplied, otherwise the value given to
\* setOptions, otherwise the built-in default.
C12_OptionsAreLayered ==
    \A i \in 1..Len(models) : \A k \in ConfigKeys :
        models[i].configOptions[k] = Layered(models[i], k)

\* C13: once a model is constructed, no setOptions call and no construction
\* of another model changes its table name, primary key name, paranoid flag
\* or the timestamp column names its statements use.
C13_ConfigurationIsImmutable ==
    [][\A i \in 1..Len(models) :
          /\ models'[i].tableName = models[i].tableName
          /\ models'[i].pkName = models[i].pkName
          /\ models'[i].paranoidTable = models[i].paranoidTable
          /\ timestampNamesOf(models[i])' = timestampNamesOf(models[i])]_vars

\* ------------------------------------------------------- claims: the finders

\* The live table has every column the model's statements name.
TableAsDefined ==
    /\ selectQuery \subseteq liveCols
    /\ paranoidTable => timestamps.deletedAt \in liveCols

\* The rows of tbl a finder can see: all of them, or on a paranoid model
\* those whose deleted-at column is null.
Visible(tbl) == {r \in tbl : ~paranoidTable \/ r.vals[timestamps.deletedAt] = NULL}

\* The last call was given arguments of the right types and a declared
\* column, and no validator or hook ended it.
ProperCall ==
    /\ ~verifyParamType(last.id)
    /\ NotAborted
    /\ last.op = "findOne" => last.where[1][1].col \in ColSet
    /\ last.op = "findAllWhere" => last.where # <<>>

\* No row matches the last call: no visible row with the id or the value, or
\* for updateById no row with the id.
NothingMatches ==
    CASE last.op = "findById" -> \A r \in Visible(last.before) : r.id # last.id
      [] last.op = "updateById" -> \A r \in last.before : r.id # last.id
      [] last.op = "findOne" -> \A r \in Visible(last.before) : ~Satisfies(r, last.where)
      [] last.op = "findAllWhere" -> \A r \in Visible(last.before) : ~Satisfies(r, last.where)
      [] last.op = "findAll" -> Visible(last.before) = {}
      [] OTHER -> FALSE

\* C14: when no row matches, findOne, findById and updateById return null,
\* findAll and findAllWhere return the empty list, no error is raised, and
\* updateById creates no row.
C14_NoMatchIsNullOrEmpty ==
    (TableAsDefined /\ ProperCall /\ NothingMatches) =>
        /\ last.op \in {"findOne", "findById", "updateById"} => last.result.kind = "null"
        /\ last.op \in {"findAll", "findAllWhere"} => last.result = ListRes({})
        /\ table = last.before

\* ---------------------------------------------------- claims: value lists

\* C15: the value list create and updateById build from their input has one
\* entry per declared column, in declaration order: the input's value when it
\* is neither null nor undefined (0, false and '' are kept), null otherwise.
C15_ValueListKeepsNonNullish ==
    (last.op \in {"create", "updateById"} /\ ~verifyParamType(last.id)) =>
        LET list == arrangeByColumns(last.values)
        IN /\ Len(list) = Len(Columns)
           /\ \A i \in 1..Len(Columns) :
                 list[i] = IF last.values[Columns[i]] \in {NULL, UNDEF} THEN NULL
                           ELSE last.values[Columns[i]]

\* The last call sent a statement of this kind.
Sent(kind) == \E i \in 1..Len(last.trace) : last.trace[i].ev = kind

\* The highest placeholder index of an UPDATE.
MaxPlaceholder(q) ==
    LET used == {q.setColumns[i].ph : i \in 1..Len(q.setColumns)} \cup {q.wherePh}
    IN CHOOSE n \in used : \A m \in used : m <= n

\* C16: every INSERT of create and every UPDATE of updateById has as many
\* parameters as its highest placeholder index, and updateById's id is the
\* parameter of the WHERE placeholder.
C16_ParametersMatchPlaceholders ==
    \A now \in Times :
        /\ (last.op = "create" /\ Sent("INSERT")) =>
              LET q == insertQuery(last.values, now)
              IN Len(q.insertValues) = q.nPlaceholders
        /\ (last.op = "updateById" /\ Sent("UPDATE")) =>
              LET q == updateQuery(last.id, last.values, now)
              IN /\ Len(q.params) = MaxPlaceholder(q)
                 /\ q.wherePh \in 1..Len(q.params)
                 /\ q.params[q.wherePh] = last.id

\* C17: on a paranoid model with timestamps enabled, no row that findAll,
\* findAllWhere, findOne or findById returns has a non-null deleted-at column.
C17_FindersHideSoftDeletedRows ==
    (/\ paranoidTable /\ useTimestamps
     /\ last.op \in {"findAll", "findAllWhere", "findOne", "findById"}
     /\ last.result.kind \in {"row", "rows"}) =>
        \A r \in last.result.rows : r.vals[timestamps.deletedAt] = NULL

\* ------------------------------------------------- claims: create's timestamps

\* C18: the row a create inserts on a model with timestamps, under the
\* default timestamp names and under any rename map, has the creation time in
\* its created-at and updated-at columns and null in its deleted-at column, so
\* that findById sees it on a paranoid model.
C18_CreateSetsTimestamps ==
    (last.op = "create" /\ last.result.kind = "row" /\ useTimestamps) =>
        LET row == TheRow(last.result)
        IN /\ row.vals[timestamps.createdAt] \in Times
           /\ row.vals[timestamps.updatedAt] \in Times
           /\ row.vals[timestamps.deletedAt] = NULL
           /\ paranoidTable => findById(table, row.id).result.kind = "row"

\* ------------------------------------------------- claims: reconciliation

\* The ALTER TABLE statements in the log of a define chain.
AltersSent(c) == SelectSeq(c.log, LAMBDA e : e = "ALTER TABLE")

\* The declared columns, and the timestamp columns, that the rows of an
\* introspection lack.
MissingDeclared(rows) == {col \in SeqSet(columns) : col \notin rows}
MissingTimestampCols(rows) == {ts \in TsCols(timestamps) : ts \notin rows}

\* C19: the reconciliation of a define sends at most one ALTER TABLE; it sends
\* one exactly when the alter option is on and a declared column is missing
\* from the introspected table, or timestamps are on and a timestamp column is
\* missing; the statement adds every missing declared column; with the alter
\* option off no ALTER TABLE is sent.
C19_OneAlterWhenSomethingIsMissing ==
    [][\A k \in 1..MaxDefine :
          (chains[k].pc = "reconcile" /\ chains'[k].pc = "done") =>
              LET rows == chains[k].rows
                  needed == alter /\ (MissingDeclared(rows) # {} \/ (useTimestamps /\ MissingTimestampCols(rows) # {}))
                  adds == chains'[k].alter
              IN /\ Len(AltersSent(chains[k])) = 0
                 /\ Len(AltersSent(chains'[k])) = IF needed THEN 1 ELSE 0
                 /\ needed => \A col \in MissingDeclared(rows) :
                                 \E i \in 1..Len(adds) : adds[i].name = col /\ ~adds[i].ifNotExists
                 /\ ~needed => adds = <<>>]_vars

\* The case of C19: a reconciliation has sent an ALTER TABLE that adds a
\* declared column, and another, with the alter option on, none.
C19_Witness ==
    /\ alter
    /\ \E k \in 1..MaxDefine :
          /\ chains[k].pc = "done"
          /\ \E i \in 1..Len(chains[k].alter) : ~chains[k].alter[i].ifNotExists
    /\ \E k \in 1..MaxDefine : chains[k].pc = "done" /\ chains[k].alter = <<>>

\* C20: across any sequence of define calls the live table never loses a
\* column, and the statements define sends are CREATE TABLE IF NOT EXISTS,
\* the introspection SELECT and ALTER TABLE ... ADD COLUMN only.
C20_ReconciliationOnlyAdds ==
    [][/\ liveCols \subseteq liveCols'
       /\ \A k \in 1..MaxDefine :
             /\ \A i \in 1..Len(chains'[k].log) :
                   chains'[k].log[i] \in {"CREATE TABLE", "SELECT", "ALTER TABLE"}
             /\ Len(chains'[k].log) >= 1 => chains'[k].log[1] = "CREATE TABLE"
             /\ Len(chains'[k].log) >= 2 => chains'[k].log[2] = "SELECT"]_vars

\* The case of C20: a table that had columns got more from an ALTER TABLE of
\* a second define with other columns.
C20_Witness ==
    /\ nDefines = 2
    /\ chains[1].cols # chains[2].cols
    /\ chains[1].liveAtCall # {}
    /\ chains[2].alterState = "done"
    /\ chains[2].liveAtCall # liveCols

\* ------------------------------------------------ claims: define's failures

\* C21: a failure of any statement of a define - CREATE TABLE, the
\* introspection query or the ALTER TABLE - is caught by define's handler and
\* raised again as the model-definition error; no raw error of a statement
\* escapes the handler.
C21_DefineFailuresAreWrapped ==
    \A k \in 1..MaxDefine :
        /\ chains[k].pc = "failed" => chains[k].raised = "define"
        /\ chains[k].alterState = "failed" => chains[k].raised = "define"
        /\ chains[k].escaped = ""

\* The CREATE TABLE of a define chain has succeeded: its .then has run.
CreateSucceeded(c) == Len(c.log) >= 2

\* C22 as stated: whenever a define has returned and its CREATE TABLE has not
\* completed, or has failed, isTableCreated is false.
C22_FalseUntilCreateTableSucceeds ==
    \A k \in 1..MaxDefine :
        (chains[k].pc # "idle" /\ ~CreateSucceeded(chains[k])) => ~isTableCreated

\* C22, amended: define returns with its CREATE TABLE still to run and leaves
\* isTableCreated as it finds it; the flag is true exactly when a CREATE TABLE
\* of the model has succeeded, so it is false when the model's first define
\* returns and stays false while every CREATE TABLE fails; once true it is
\* never reset.
C22_TrueOnceACreateTableSucceeded ==
    [][/\ isTableCreated' <=> \E k \in 1..MaxDefine : CreateSucceeded(chains'[k])
       /\ isTableCreated => isTableCreated'
       /\ nDefines' # nDefines =>
             /\ isTableCreated' = isTableCreated
             /\ chains'[nDefines'].pc = "create"]_vars

\* The case of C22: the CREATE TABLE of the first define failed, the one of
\* the second succeeded, and a moment when only the first has failed.
C22_Witness ==
    /\ chains[1].pc = "failed" /\ ~CreateSucceeded(chains[1])
    /\ chains[2].pc = "done"
    /\ isTableCreated

\* ---------------------------------------------------------- claims: hooks

\* The places in the last call's trace of the events of these kinds.
Places(kinds) == {i \in 1..Len(last.trace) : last.trace[i].ev \in kinds}

\* The last call got as far as its before-hook, one being registered.
ReachedHook ==
    /\ ~verifyParamType(last.id)
    /\ \/ last.op = "create" /\ hooks.create /\ ~(last.result.err \in ValidatorNames)
       \/ last.op = "updateById" /\ hooks.update /\ ~(last.result.err \in ValidatorNames)
       \/ last.op = "deleteById" /\ hooks.destroy

\* C23: in create and updateById every validator runs before the before-hook
\* and the hook before the INSERT or UPDATE; in deleteById the hook runs
\* before the lookup and before any DELETE or UPDATE; when the hook raises,
\* the call fails with the hook's error, sends no statement after it and
\* leaves the table as it was.
C23_ValidatorsThenHookThenStatement ==
    (last.op \in {"create", "updateById", "deleteById"}) =>
        /\ ReachedHook <=> Cardinality(Places({"hook"})) = 1
        /\ \A h \in Places({"hook"}) :
              /\ \A v \in Places({"validator"}) : v < h
              /\ \A q \in Places({"SELECT", "INSERT", "UPDATE", "DELETE"}) : h < q
              /\ last.trace[h].val = "throws" =>
                    /\ last.result = ErrRes("hook")
                    /\ h = Len(last.trace)
                    /\ table = last.before
              /\ last.trace[h].val = "returns" => last.result.err # "hook"

\* The case of C23: the before-destroy hook raised on the deleteById of a row
\* that exists.
C23_Witness ==
    /\ last.op = "deleteById"
    /\ last.result = ErrRes("hook")
    /\ \E r \in last.before : r.id = last.id

\* ------------------------------------------------ claims: argument checks

\* C24: findById, updateById and deleteById with an id that is not a number,
\* and findOne with a column that is not declared, raise the error that
\* carries the method's name before any validator, hook or statement, and the
\* table is unchanged.
C24_BadArgumentsRaiseFirst ==
    LET badId == last.op \in {"findById", "updateById", "deleteById"} /\ verifyParamType(last.id)
        badColumn == last.op = "findOne" /\ last.where[1][1].col \notin ColSet
    IN (badId \/ badColumn) =>
          /\ last.result = ErrRes(last.op)
          /\ last.trace = <<>>
          /\ table = last.before

\* --------------------------------------------- claims: addForeignKey, more

C26_UpdateByIdSkipsSoftDeletedRows ==
    (/\ paranoidTable /\ useTimestamps
     /\ last.op = "updateById"
     /\ Sent("UPDATE")
     /\ \E r \in last.before : r.id = last.id /\ r.vals[timestamps.deletedAt] # NULL) =>
        /\ last.result = Res("null", {}, "")
        /\ table = last.before

\* ----------------------------------------------- claims: overlapping deleteById

\* C27: of two deleteById calls for the same id that overlap (the second is
\* made while the first has not returned), at most one returns true.
C27_AtMostOneOverlappingDeleteIsTrue ==
    \A j, k \in 1..MaxDelete :
        (/\ j \in deleteCalls[k].during
         /\ deleteCalls[j].id = deleteCalls[k].id
         /\ deleteCalls[j].pc = "done" /\ deleteCalls[k].pc = "done") =>
            ~(deleteCalls[j].result.kind = "true" /\ deleteCalls[k].result.kind = "true")

\* ------------------------------------------- claims: reconciliation completes

\* Some define call has been made.
DefineCalled == nDefines >= 1

\* The live table has every column the model declares and, with timestamps
\* on, every timestamp column.
AllColumnsPresent ==
    /\ SeqSet(columns) \subseteq liveCols
    /\ useTimestamps => TsCols(timestamps) \subseteq liveCols

\* No statement a define chain sent has failed.
NoStatementFailed ==
    \A k \in 1..MaxDefine : chains[k].pc # "failed" /\ chains[k].alterState # "failed"

\* C28: with the alter option on and no statement ever failing, once define
\* has been called the live table eventually has every column the model
\* declares and, with timestamps on, every timestamp column, whatever the
\* table had before.
C28_DeclaredColumnsEventuallyPresent ==
    []NoStatementFailed => ((alter /\ DefineCalled) ~> AllColumnsPresent)

\* The case of C28: a define with the alter option met a table that lacked a
\* declared column and a timestamp column, its ALTER TABLE has been executed
\* and everything is there.
C28_Witness ==
    /\ alter /\ useTimestamps /\ AllColumnsPresent
    /\ \E k \in 1..MaxDefine :
          /\ chains[k].alterState = "done"
          /\ ~(SeqSet(chains[k].cols) \subseteq chains[k].liveAtCall)
          /\ ~(TsCols(timestamps) \subseteq chains[k].liveAtCall)
          /\ chains[k].liveAtCall # {}

\* ------------------------------------------------ claims: overlapping define

\* C29: when define calls with the alter option overlap on a table that
\* was there before them and lacks a declared column, no ALTER TABLE is
\* executed that adds a declared column the live table has at that time: each
\* missing column is added by one call only.
C29_NoAddOfAPresentColumn ==
    [][\A k \in 1..MaxDefine :
          (/\ chains[k].liveAtCall # {}
           /\ ~(SeqSet(chains[k].cols) \subseteq chains[k].liveAtCall)
           /\ chains[k].alterState = "pending" /\ chains'[k].alterState # "pending") =>
             \A i \in 1..Len(chains[k].alter) :
                 chains[k].alter[i].ifNotExists \/ chains[k].alter[i].name \notin liveCols]_vars

\* --------------------------------------- claims: the referenced parent column

\* C30: the ADD CONSTRAINT statement of an addForeignKey call references the
\* primary key column of the parent table, also when this model and the
\* parent model were given different primary key names; the constraint it
\* adds has that column as its reference.
C30_ReferencesTheParentPrimaryKey ==
    /\ \A k \in 1..MaxFk :
          (\E i \in 1..Len(fkCalls[k].log) : fkCalls[k].log[i] = "ALTER TABLE") =>
              ReferencedColumn = pkNames.parent
    /\ \A c \in constraints : c.ref = pkNames.parent

====
